---------------------------- MODULE Spec2Model ----------------------------
(***************************************************************************)
(* The graffiti wall front end: the fixed-width record codec               *)
(* (serializeGraffitiData and the record decoder of fetchWallData), the    *)
(* read path (fetchWallData), the append pipeline (handleAddToWall) and    *)
(* the wallet session it signs with (useWallet).                           *)
(*                                                                         *)
(* Text is a sequence of Unicode code points; a code point in              *)
(* 55296..57343 stands for an unpaired surrogate code unit of a JS string. *)
(* Bytes are the integers 0..255.  Digests are opaque terms.               *)
(***************************************************************************)
EXTENDS Integers, Sequences, FiniteSets, TLC

VARIABLES
    name,             \* useState('')       the name input
    message,          \* useState('')       the message input
    isFormValid,      \* useState(false)
    error,            \* useState<string | null>(null)
    isAccountCreated, \* useState(false)
    wallData,         \* useState<GraffitiMessage[]>([])  the displayed ledger
    network,          \* import.meta.env.VITE_NETWORK || 'regtest'
    wallet,           \* useWallet(): the WalletState
    storage,          \* localStorage 'walletState'
    attempts,         \* the invocations of handleAddToWall, by number
    payload,          \* the last result of serializeGraffitiData (codec runs)
    lastFetch,        \* the readAccountInfo response fetchWallData handled last
    fetchPrior,       \* what was on display when that response arrived
    probes            \* the mount-time checks still awaiting readAccountInfo

vars == <<name, message, isFormValid, error, isAccountCreated, wallData,
          network, wallet, storage, attempts, payload, lastFetch, fetchPrior,
          probes>>

formVars == <<name, message, isFormValid>>
walletVars == <<network, wallet, storage>>
fetchVars == <<lastFetch, fetchPrior>>

Null == "null"

-----------------------------------------------------------------------------
(* Bounds of the model.                                                     *)

\* the free characters of a name drawn for the codec (after the filler)
MaxTail == 2
\* the free characters of a message drawn for the codec (after the filler)
MaxMsgTail == 1
\* the whole records of a wall buffer drawn for the read path
MaxRecords == 3
\* the invocations of handleAddToWall in one run of the append pipeline
MaxAttempts == 1

-----------------------------------------------------------------------------
(* Program constants.                                                       *)

NAME_LEN == 16
MESSAGE_LEN == 64
TIMESTAMP_LEN == 8
COUNT_LEN == 4
SIG_PREFIX_LEN == 2

RECORD_LEN == TIMESTAMP_LEN + NAME_LEN + MESSAGE_LEN

-----------------------------------------------------------------------------
(* Sequences and bytes.                                                     *)

Min(a, b) == IF a < b THEN a ELSE b

\* TypedArray.prototype.slice(start, end) and Array.prototype.slice for
\* 0 <= start: both ends are clamped to the length.
Slice(s, start, end) ==
    LET lo == Min(start, Len(s))
        hi == Min(end, Len(s))
    IN  IF hi <= lo THEN <<>> ELSE SubSeq(s, lo + 1, hi)

\* new Uint8Array(n).fill(0)
Zeros(n) == [i \in 1..n |-> 0]

\* target.set(source): copies source to the start of target; a source longer
\* than the target is a RangeError, which the callers' slice rules out.
SetInto(target, source) ==
    [i \in 1..Len(target) |-> IF i <= Len(source) THEN source[i] ELSE target[i]]

\* bytes.filter(x => x !== 0)
FilterNonZeroTrailing(s) ==
    LET last == CHOOSE i \in 0..Len(s) :
                    /\ (i = 0 \/ s[i] # 0)
                    /\ \A j \in (i + 1)..Len(s) : s[j] = 0
    IN  SubSeq(s, 1, last)
FilterNonZero(s) == SelectSeq(s, LAMBDA x : x # 0)

\* the concatenation of ss[from .. to], by halves
RECURSIVE ConcatRange(_, _, _)
ConcatRange(ss, from, to) ==
    IF from > to THEN <<>>
    ELSE IF from = to THEN ss[from]
    ELSE LET mid == (from + to) \div 2
         IN  ConcatRange(ss, from, mid) \o ConcatRange(ss, mid + 1, to)

Concat(ss) == ConcatRange(ss, 1, Len(ss))

Repeat(c, n) == [i \in 1..n |-> c]

-----------------------------------------------------------------------------
(* UTF-8, as TextEncoder and TextDecoder (non-fatal, BOM-stripping) do it.  *)

REPLACEMENT == 65533
BOM == 65279

IsSurrogate(c) == c \in 55296..57343

\* TextEncoder.encode of one code point: an unpaired surrogate is encoded as
\* U+FFFD.
Utf8OfCodePoint(c) ==
    IF c < 128 THEN <<c>>
    ELSE IF c < 2048 THEN <<192 + (c \div 64), 128 + (c % 64)>>
    ELSE IF IsSurrogate(c) THEN <<239, 191, 189>>
    ELSE IF c < 65536
         THEN <<224 + (c \div 4096), 128 + ((c \div 64) % 64), 128 + (c % 64)>>
    ELSE <<240 + (c \div 262144), 128 + ((c \div 4096) % 64),
           128 + ((c \div 64) % 64), 128 + (c % 64)>>

\* new TextEncoder().encode(text)
TextEncode(text) == Concat([i \in 1..Len(text) |-> Utf8OfCodePoint(text[i])])

\* The UTF-8 decoder of the Encoding Standard.  Its state: out, the code
\* points emitted; cp, the code point under construction; need, the
\* continuation bytes still needed; lo..hi, the range the next continuation
\* byte must lie in.
Utf8Start(out) == [out |-> out, cp |-> 0, need |-> 0, lo |-> 128, hi |-> 191]

\* a byte met with no sequence open
Utf8Lead(out, x) ==
    IF x < 128 THEN Utf8Start(Append(out, x))
    ELSE IF x \in 194..223
         THEN [out |-> out, cp |-> x - 192, need |-> 1, lo |-> 128, hi |-> 191]
    ELSE IF x \in 224..239
         THEN [out |-> out, cp |-> x - 224, need |-> 2,
               lo |-> IF x = 224 THEN 160 ELSE 128,
               hi |-> IF x = 237 THEN 159 ELSE 191]
    ELSE IF x \in 240..244
         THEN [out |-> out, cp |-> x - 240, need |-> 3,
               lo |-> IF x = 240 THEN 144 ELSE 128,
               hi |-> IF x = 244 THEN 143 ELSE 191]
    ELSE Utf8Start(Append(out, REPLACEMENT))

\* One byte: a byte that cannot continue the open sequence ends it with
\* U+FFFD and is decoded again as a lead.
Utf8Step(st, x) ==
    IF st.need = 0 THEN Utf8Lead(st.out, x)
    ELSE IF x < st.lo \/ x > st.hi THEN Utf8Lead(Append(st.out, REPLACEMENT), x)
    ELSE IF st.need = 1 THEN Utf8Start(Append(st.out, (st.cp * 64) + (x - 128)))
    ELSE [out |-> st.out, cp |-> (st.cp * 64) + (x - 128), need |-> st.need - 1,
          lo |-> 128, hi |-> 191]

\* the bytes b[from .. to] in order, by halves; the test on the state of the
\* left half has it evaluated before the right half starts
RECURSIVE Utf8Run(_, _, _, _)
Utf8Run(b, from, to, st) ==
    IF from > to THEN st
    ELSE IF from = to THEN Utf8Step(st, b[from])
    ELSE LET mid  == (from + to) \div 2
             left == Utf8Run(b, from, mid, st)
         IN  IF left.need >= 0 THEN Utf8Run(b, mid + 1, to, left) ELSE left

\* end of input: an open sequence yields U+FFFD
Utf8Finish(st) == IF st.need # 0 THEN Append(st.out, REPLACEMENT) ELSE st.out

\* new TextDecoder().decode(bytes): utf-8, fatal false, ignoreBOM false, so a
\* leading EF BB BF is dropped and malformed input never throws.
TextDecode(b) ==
    IF Len(b) >= 3 /\ SubSeq(b, 1, 3) = <<239, 187, 191>>
    THEN Utf8Finish(Utf8Run(b, 4, Len(b), Utf8Start(<<>>)))
    ELSE Utf8Finish(Utf8Run(b, 1, Len(b), Utf8Start(<<>>)))

-----------------------------------------------------------------------------
(* serializeGraffitiData.                                                   *)

\* borsh.serialize of { name: [u8; 16], message: [u8; 64] }: a fixed-length
\* array is written element by element with no length prefix, a struct field
\* by field in schema order.
BorshSerializeParamsMsgFirst(params) == params.message \o params.name
BorshSerializeParams(params) == params.name \o params.message

\* nameArray.set(nameBytes.slice(0, 16)) throws a RangeError when the source
\* is longer than the target.
SetThrows(target, source) == Len(source) > Len(target)

SerializeThrows(n, m) ==
    \/ SetThrows(Zeros(NAME_LEN), Slice(TextEncode(n), 0, NAME_LEN))
    \/ SetThrows(Zeros(MESSAGE_LEN), Slice(TextEncode(m), 0, MESSAGE_LEN))

serializeGraffitiDataShortSlice(n, m) ==
    BorshSerializeParams(
        [name    |-> SetInto(Zeros(NAME_LEN), Slice(TextEncode(n), 0, NAME_LEN - 1)),
         message |-> SetInto(Zeros(MESSAGE_LEN), Slice(TextEncode(m), 0, MESSAGE_LEN))])
serializeGraffitiData(n, m) ==
    LET nameArray    == Zeros(NAME_LEN)
        messageArray == Zeros(MESSAGE_LEN)
        nameBytes    == TextEncode(n)
        messageBytes == TextEncode(m)
        params == [name    |-> SetInto(nameArray, Slice(nameBytes, 0, NAME_LEN)),
                   message |-> SetInto(messageArray, Slice(messageBytes, 0, MESSAGE_LEN))]
    IN  BorshSerializeParams(params)

-----------------------------------------------------------------------------
(* Little-endian integers.  The model's integers are 32-bit, so the values  *)
(* drawn keep to that range; within it Number(bigint) is exact.             *)

RECURSIVE LEValue(_)
LEValue(b) == IF b = <<>> THEN 0 ELSE Head(b) + (256 * LEValue(Tail(b)))

Complement(b) == [i \in 1..Len(b) |-> 255 - b[i]]

\* The significant low bytes of a little-endian field: the high bytes that
\* are all `fill` carry no value.
RECURSIVE TrimHigh(_, _)
TrimHigh(b, fill) ==
    IF b # <<>> /\ b[Len(b)] = fill THEN TrimHigh(SubSeq(b, 1, Len(b) - 1), fill)
    ELSE b

\* DataView.getUint32(offset, true) on the bytes b[offset .. offset+3]
GetUint32(b, offset) == LEValue(TrimHigh(SubSeq(b, offset + 1, offset + 4), 0))

\* Number(DataView.getBigInt64(offset, true)): two's complement
GetBigInt64(b, offset) ==
    LET f == SubSeq(b, offset + 1, offset + TIMESTAMP_LEN)
    IN  IF f[TIMESTAMP_LEN] < 128 THEN LEValue(TrimHigh(f, 0))
        ELSE -(LEValue(TrimHigh(Complement(f), 0))) - 1

\* The n-byte little-endian two's complement form of v.
RECURSIVE LEBytes(_, _)
LEBytes(v, n) == IF n = 0 THEN <<>> ELSE <<v % 256>> \o LEBytes(v \div 256, n - 1)

U32LE(v) == LEBytes(v, COUNT_LEN)
I64LE(v) == IF v >= 0 THEN LEBytes(v, TIMESTAMP_LEN)
            ELSE Complement(LEBytes(-v - 1, TIMESTAMP_LEN))

-----------------------------------------------------------------------------
(* The read path: fetchWallData.                                            *)

\* userAccount.data: absent, or a Uint8Array, which is a window of `length`
\* bytes at `byteOffset` into its ArrayBuffer `buffer`.
AbsentData == [present |-> FALSE, buffer |-> <<>>, byteOffset |-> 0, length |-> 0]
Uint8Array(bytes) ==
    [present |-> TRUE, buffer |-> bytes, byteOffset |-> 0, length |-> Len(bytes)]
Uint8View(buffer, byteOffset, length) ==
    [present |-> TRUE, buffer |-> buffer, byteOffset |-> byteOffset, length |-> length]

\* the elements wallData[0 .. length-1]
ViewBytes(data) == SubSeq(data.buffer, data.byteOffset + 1, data.byteOffset + data.length)

GraffitiMessage(t, n, m) == [timestamp |-> t, name |-> n, message |-> m]

\* One pass of the loop of fetchWallData at `offset`: the timestamp is read
\* through new DataView(wallData.buffer), which spans the whole ArrayBuffer
\* and throws a RangeError past its end; name and message are read with
\* wallData.slice, which clamps to the window and never throws.
ReadThrows(data, offset) == offset + TIMESTAMP_LEN > Len(data.buffer)

ReadRecordKeepZeros(data, offset) ==
    LET nameBytes    == Slice(ViewBytes(data), offset + TIMESTAMP_LEN,
                              offset + TIMESTAMP_LEN + NAME_LEN)
        messageBytes == Slice(ViewBytes(data), offset + TIMESTAMP_LEN + NAME_LEN,
                              offset + RECORD_LEN)
    IN  GraffitiMessage(GetBigInt64(data.buffer, offset),
                        TextDecode(nameBytes), TextDecode(messageBytes))
ReadRecord(data, offset) ==
    LET timestamp    == GetBigInt64(data.buffer, offset)
        nameBytes    == Slice(ViewBytes(data), offset + TIMESTAMP_LEN,
                              offset + TIMESTAMP_LEN + NAME_LEN)
        messageBytes == Slice(ViewBytes(data), offset + TIMESTAMP_LEN + NAME_LEN,
                              offset + RECORD_LEN)
    IN  GraffitiMessage(timestamp,
                        TextDecode(FilterNonZero(nameBytes)),
                        TextDecode(FilterNonZero(messageBytes)))

\* for (let i = 0; i < messageCount; i++) { ... messages.push(...) }
RECURSIVE DecodeLoop(_, _, _, _, _)
DecodeLoop(data, messageCount, i, offset, messages) ==
    IF i >= messageCount THEN [threw |-> FALSE, messages |-> messages]
    ELSE IF ReadThrows(data, offset) THEN [threw |-> TRUE, messages |-> <<>>]
    ELSE DecodeLoop(data, messageCount, i + 1, offset + RECORD_LEN,
                    Append(messages, ReadRecord(data, offset)))

\* new DataView(wallData.buffer).getUint32(0, true) throws a RangeError on an
\* ArrayBuffer of fewer than 4 bytes.
CountThrows(data) == COUNT_LEN > Len(data.buffer)

\* the count, then the records
DecodeMessages(data) ==
    IF CountThrows(data) THEN [threw |-> TRUE, messages |-> <<>>]
    ELSE DecodeLoop(data, GetUint32(data.buffer, 0), 0, COUNT_LEN, <<>>)

\* messages.sort((a, b) => b.timestamp - a.timestamp): Array.prototype.sort is
\* stable, so this is an insertion of each element after the ones that do not
\* sort behind it.
RECURSIVE InsertSortedBeforeTies(_, _)
InsertSortedBeforeTies(sorted, m) ==
    IF sorted = <<>> THEN <<m>>
    ELSE IF Head(sorted).timestamp > m.timestamp
         THEN <<Head(sorted)>> \o InsertSortedBeforeTies(Tail(sorted), m)
    ELSE <<m>> \o sorted

RECURSIVE InsertSorted(_, _)
InsertSorted(sorted, m) ==
    IF sorted = <<>> THEN <<m>>
    ELSE IF Head(sorted).timestamp >= m.timestamp
         THEN <<Head(sorted)>> \o InsertSorted(Tail(sorted), m)
    ELSE <<m>> \o sorted

RECURSIVE SortMessages(_)
SortMessages(messages) ==
    IF messages = <<>> THEN <<>>
    ELSE InsertSorted(SortMessages(SubSeq(messages, 1, Len(messages) - 1)),
                      messages[Len(messages)])

\* what readAccountInfo resolved to, or that it rejected
RpcThrew == [kind |-> "throw", data |-> AbsentData]
RpcNotFound == [kind |-> "notfound", data |-> AbsentData]
RpcAccount(data) == [kind |-> "account", data |-> data]

\* if (!wallData || wallData.length < 4)
IsShortDataOffByOne(data) == ~data.present \/ data.length < COUNT_LEN - 1
IsShortData(data) == ~data.present \/ data.length < COUNT_LEN

ERR_FETCH == "Failed to fetch wall data"
ERR_NOT_FOUND == "Account not found."

\* fetchWallData once readAccountInfo has settled with resp: the state
\* updates of the component (wallData, error).
FetchWallDataMerging(resp) ==
    /\ lastFetch' = resp
    /\ fetchPrior' = [hadEntries |-> wallData # <<>>, hadError |-> error # Null]
    /\ IF resp.kind = "throw"
       THEN /\ error' = ERR_FETCH
            /\ UNCHANGED wallData
       ELSE IF resp.kind = "notfound"
       THEN /\ error' = ERR_NOT_FOUND
            /\ UNCHANGED wallData
       ELSE IF IsShortData(resp.data)
       THEN /\ wallData' = <<>>
            /\ error' = Null
       ELSE LET r == DecodeMessages(resp.data)
            IN  IF r.threw
                THEN /\ error' = ERR_FETCH
                     /\ UNCHANGED wallData
                ELSE /\ wallData' = SortMessages(wallData \o r.messages)
                     /\ UNCHANGED error
FetchWallData(resp) ==
    /\ lastFetch' = resp
    /\ fetchPrior' = [hadEntries |-> wallData # <<>>, hadError |-> error # Null]
    /\ IF resp.kind = "throw"
       THEN /\ error' = ERR_FETCH
            /\ UNCHANGED wallData
       ELSE IF resp.kind = "notfound"
       THEN /\ error' = ERR_NOT_FOUND
            /\ UNCHANGED wallData
       ELSE IF IsShortData(resp.data)
       THEN /\ wallData' = <<>>
            /\ error' = Null
       ELSE LET r == DecodeMessages(resp.data)
            IN  IF r.threw
                THEN /\ error' = ERR_FETCH
                     /\ UNCHANGED wallData
                ELSE /\ wallData' = SortMessages(r.messages)
                     /\ UNCHANGED error

RpcNone == [kind |-> "none", data |-> AbsentData]
NoPrior == [hadEntries |-> FALSE, hadError |-> FALSE]

-----------------------------------------------------------------------------
(* The codec on its own: a name and a message are drawn, serialized, and    *)
(* the payload is read back as the one record of a wall account.            *)

\* NUL, a, e-acute (2 bytes), the byte order mark (3 bytes), an unpaired
\* surrogate, an emoji (4 bytes)
CodePoints == {0, 97, 233, BOM, 55296, 128512}

TextsUpTo(S, n) == UNION {[1..k -> S] : k \in 0..n}

\* the fillers bring a text to the edge of its field
NameFills == {0, NAME_LEN - 2}
MessageFills == {0, MESSAGE_LEN - 2}
CodecNames == {Repeat(97, f) \o t : f \in NameFills, t \in TextsUpTo(CodePoints, MaxTail)}
CodecMessages ==
    {Repeat(97, f) \o t : f \in MessageFills, t \in TextsUpTo(CodePoints, MaxMsgTail)}
CodecTimestamps == {0, 1700000000, -1}

NoPayload == [done |-> FALSE, threw |-> FALSE, bytes |-> <<>>]

NoWallet ==
    [isConnected |-> FALSE, publicKey |-> Null, privateKey |-> Null,
     address |-> Null, walletType |-> Null]

\* localStorage 'walletState': no item, or the JSON of a session
NoItem == [present |-> FALSE, state |-> NoWallet]
Item(state) == [present |-> TRUE, state |-> state]

CodecInit ==
    /\ name \in CodecNames
    /\ message \in CodecMessages
    /\ payload = NoPayload
    /\ wallData = <<>>
    /\ error = Null
    /\ lastFetch = RpcNone
    /\ fetchPrior = NoPrior
    /\ isFormValid = FALSE
    /\ isAccountCreated = FALSE
    /\ network = "regtest"
    /\ wallet = NoWallet
    /\ storage = NoItem
    /\ attempts = <<>>
    /\ probes = {}

\* const data = serializeGraffitiData(name, message)
Serialize ==
    /\ ~payload.done
    /\ payload' = IF SerializeThrows(name, message)
                  THEN [done |-> TRUE, threw |-> TRUE, bytes |-> <<>>]
                  ELSE [done |-> TRUE, threw |-> FALSE,
                        bytes |-> serializeGraffitiData(name, message)]
    /\ UNCHANGED <<formVars, error, isAccountCreated, wallData, walletVars,
                   attempts, fetchVars, probes>>

\* The wall account holds the payload behind a count of one and a timestamp,
\* and fetchWallData reads it.
ReadBack ==
    /\ payload.done /\ ~payload.threw
    /\ lastFetch = RpcNone
    /\ \E t \in CodecTimestamps :
          FetchWallData(RpcAccount(Uint8Array(U32LE(1) \o I64LE(t) \o payload.bytes)))
    /\ UNCHANGED <<formVars, isAccountCreated, walletVars, attempts, payload,
                   probes>>

CodecNext == Serialize \/ ReadBack

SpecCodec == CodecInit /\ [][CodecNext]_vars


-----------------------------------------------------------------------------
(* The read path on its own: readAccountInfo settles with any of a bounded  *)
(* set of responses, again and again (the 5 s polling), and fetchWallData   *)
(* handles each.                                                            *)

\* the records a wall buffer is made of
ReadTimestamps == {100, 200, 300}
Field(text, n) == SetInto(Zeros(n), TextEncode(text))
RecordBytes(t, n, m) == I64LE(t) \o Field(n, NAME_LEN) \o Field(m, MESSAGE_LEN)
ReadRecords ==
    {RecordBytes(t, <<97>>, <<104, 105>>) : t \in ReadTimestamps}
        \cup {RecordBytes(300, <<233>>, <<>>)}

\* the whole records of a buffer: up to MaxRecords different records in any
\* order
RecordSeqs ==
    UNION {{recs \in [1..k -> ReadRecords] :
               \A i, j \in 1..k : i # j => recs[i] # recs[j]} : k \in 0..MaxRecords}

\* buffers whose count is the number of whole records they hold
SoundBuffers == {U32LE(Len(recs)) \o Concat(recs) : recs \in RecordSeqs}

\* Buffers cut short or miscounted: no or one whole record, then the first
\* bytes of one more (none, a cut timestamp, the timestamp alone, a cut name,
\* a cut message), under a count that is the number of whole records, one
\* less or one more.
PartialLens == {0, TIMESTAMP_LEN - 1, TIMESTAMP_LEN, TIMESTAMP_LEN + 1, RECORD_LEN - 1}
PartialRecord == RecordBytes(200, <<97, 98>>, <<104, 105>>)
WholeRecord == RecordBytes(100, <<97>>, <<104, 105>>)
CountDeltas == {-1, 0, 1}
CutBuffersOf(k) ==
    {U32LE(k + d) \o SubSeq(WholeRecord, 1, k * RECORD_LEN) \o SubSeq(PartialRecord, 1, p) :
        p \in PartialLens, d \in {x \in CountDeltas : k + x >= 0}}
WallBuffers == SoundBuffers \cup CutBuffersOf(0) \cup CutBuffersOf(1)

\* data too short to hold a count
ShortBuffers == {SubSeq(U32LE(1), 1, k) : k \in 0..(COUNT_LEN - 1)}

\* Account data that is a window behind the first bytes of a larger
\* ArrayBuffer: one whole record under a count of 1, behind 4 bytes that
\* read as a count of 0, or as a count of 1.
ViewResponses ==
    {RpcAccount(Uint8View(U32LE(0) \o U32LE(1) \o WholeRecord,
                          COUNT_LEN, COUNT_LEN + RECORD_LEN)),
     RpcAccount(Uint8View(U32LE(1) \o U32LE(1) \o RecordBytes(0, <<97>>, <<104, 105>>),
                          COUNT_LEN, COUNT_LEN + RECORD_LEN))}

RpcResponses ==
    {RpcThrew, RpcNotFound, RpcAccount(AbsentData)}
        \cup {RpcAccount(Uint8Array(b)) : b \in WallBuffers \cup ShortBuffers}
        \cup ViewResponses

ReadInit ==
    /\ wallData = <<>>
    /\ error = Null
    /\ lastFetch = RpcNone
    /\ fetchPrior = NoPrior
    /\ name = <<>>
    /\ message = <<>>
    /\ isFormValid = FALSE
    /\ isAccountCreated = TRUE
    /\ network = "regtest"
    /\ wallet = NoWallet
    /\ storage = NoItem
    /\ attempts = <<>>
    /\ probes = {}
    /\ payload = NoPayload

\* one poll: fetchWallData from the interval of the polling effect
Poll ==
    /\ isAccountCreated
    /\ \E resp \in RpcResponses : FetchWallData(resp)
    /\ UNCHANGED <<formVars, isAccountCreated, walletVars, attempts, payload,
                   probes>>

ReadNext == Poll

SpecRead == ReadInit /\ [][ReadNext]_vars

-----------------------------------------------------------------------------
(* Text encodings of byte strings: Buffer.toString('hex'),                  *)
(* Buffer.toString('base64') and Buffer.from(text, 'base64').  A text here  *)
(* is a sequence of ASCII codes.                                            *)

HexDigit(v) == IF v < 10 THEN 48 + v ELSE 87 + v

\* Buffer.from(bytes).toString('hex'): two lower-case digits a byte
HexEncode(bytes) ==
    [i \in 1..(2 * Len(bytes)) |->
        LET b == bytes[(i + 1) \div 2]
        IN  IF i % 2 = 1 THEN HexDigit(b \div 16) ELSE HexDigit(b % 16)]

\* the base64 alphabet: A-Z, a-z, 0-9, + and /
B64Char(v) ==
    IF v < 26 THEN 65 + v
    ELSE IF v < 52 THEN 97 + (v - 26)
    ELSE IF v < 62 THEN 48 + (v - 52)
    ELSE IF v = 62 THEN 43 ELSE 47

\* the value of a base64 character (the URL-safe - and _ are accepted), -1
\* for any other character
B64Value(c) ==
    IF c \in 65..90 THEN c - 65
    ELSE IF c \in 97..122 THEN (c - 97) + 26
    ELSE IF c \in 48..57 THEN (c - 48) + 52
    ELSE IF c = 43 \/ c = 45 THEN 62
    ELSE IF c = 47 \/ c = 95 THEN 63
    ELSE -1

B64_PAD == 61

\* the base64 characters of up to three bytes, padded with = to four
B64Group(g) ==
    LET b1 == g[1]
        b2 == IF Len(g) >= 2 THEN g[2] ELSE 0
        b3 == IF Len(g) >= 3 THEN g[3] ELSE 0
    IN  <<B64Char(b1 \div 4),
          B64Char(((b1 % 4) * 16) + (b2 \div 16)),
          IF Len(g) >= 2 THEN B64Char(((b2 % 16) * 4) + (b3 \div 64)) ELSE B64_PAD,
          IF Len(g) >= 3 THEN B64Char(b3 % 64) ELSE B64_PAD>>

\* the base64 text of a signature, as a wallet returns it
Base64Encode(bytes) ==
    Concat([k \in 1..((Len(bytes) + 2) \div 3) |->
                B64Group(SubSeq(bytes, (3 * k) - 2, Min(3 * k, Len(bytes))))])

\* base64clean of the buffer package: the text up to the first =, without
\* the characters that are not base64; fewer than two characters decode to
\* nothing
RECURSIVE UpToPad(_)
UpToPad(text) ==
    IF text = <<>> \/ Head(text) = B64_PAD THEN <<>>
    ELSE <<Head(text)>> \o UpToPad(Tail(text))

Base64Clean(text) ==
    LET kept == SelectSeq(UpToPad(text), LAMBDA c : B64Value(c) >= 0)
    IN  IF Len(kept) < 2 THEN <<>> ELSE kept

\* the bytes of one group of 2, 3 or 4 characters (1, 2 or 3 bytes)
B64GroupBytes(g) ==
    LET v1 == B64Value(g[1])
        v2 == B64Value(g[2])
        v3 == IF Len(g) >= 3 THEN B64Value(g[3]) ELSE 0
        v4 == IF Len(g) >= 4 THEN B64Value(g[4]) ELSE 0
        all == <<(v1 * 4) + (v2 \div 16),
                 ((v2 % 16) * 16) + (v3 \div 4),
                 ((v3 % 4) * 64) + v4>>
    IN  SubSeq(all, 1, Len(g) - 1)

\* Buffer.from(text, 'base64'): whole groups of four characters give three
\* bytes each; a last group of two or three characters gives one or two; a
\* single left-over character gives none.
Base64Decode(text) ==
    LET clean == Base64Clean(text)
        whole == Len(clean) \div 4
        left  == Len(clean) % 4
    IN  Concat([k \in 1..whole |-> B64GroupBytes(SubSeq(clean, (4 * k) - 3, 4 * k))])
            \o (IF left >= 2
                THEN B64GroupBytes(SubSeq(clean, (4 * whole) + 1, Len(clean)))
                ELSE <<>>)

-----------------------------------------------------------------------------
(* The wallet session (useWallet) and the terms of the SDK.                 *)

LocalSession ==
    [isConnected |-> TRUE, publicKey |-> "pk_regtest", privateKey |-> "sk_regtest",
     address |-> Null, walletType |-> "regtest"]
RemoteSession ==
    [isConnected |-> TRUE, publicKey |-> "pk_ordinals", privateKey |-> Null,
     address |-> "addr_ordinals", walletType |-> "software"]
\* a wallet whose ordinals address came without a publicKey
KeylessSession ==
    [isConnected |-> TRUE, publicKey |-> Null, privateKey |-> Null,
     address |-> "addr_ordinals", walletType |-> "software"]

Networks == {"development", "regtest", "testnet"}

PROGRAM_PUBKEY == "program_pubkey"
WALL_ACCOUNT_PUBKEY == "wall_account_pubkey"

\* Opaque results of the SDK and of the crypto primitives: alg names the
\* function, of its argument.
Term(alg, of) == [alg |-> alg, of |-> of]

\* PubkeyUtil.fromHex(hex); it throws on a missing key
PubkeyFromHex(hex) == Term("PubkeyUtil.fromHex", hex)
PubkeyFromHexThrows(hex) == hex = Null
accountPubkey == PubkeyFromHex(WALL_ACCOUNT_PUBKEY)

\* new Uint8Array(data): each number taken modulo 256
ToUint8Array(data) == [i \in 1..Len(data) |-> data[i] % 256]

\* const instruction: Instruction = { ... }
DraftInstructionSwapped(publicKey, data) ==
    [program_id |-> PubkeyFromHex(PROGRAM_PUBKEY),
     accounts |-> <<[pubkey |-> accountPubkey, is_signer |-> FALSE, is_writable |-> TRUE],
                    [pubkey |-> PubkeyFromHex(publicKey), is_signer |-> TRUE,
                     is_writable |-> FALSE]>>,
     data |-> ToUint8Array(data)]
DraftInstruction(publicKey, data) ==
    [program_id |-> PubkeyFromHex(PROGRAM_PUBKEY),
     accounts |-> <<[pubkey |-> PubkeyFromHex(publicKey), is_signer |-> TRUE,
                     is_writable |-> FALSE],
                    [pubkey |-> accountPubkey, is_signer |-> FALSE, is_writable |-> TRUE]>>,
     data |-> ToUint8Array(data)]

\* const messageObj : Message = { signers, instructions }
DraftMessage(publicKey, instruction) ==
    [signers |-> <<PubkeyFromHex(publicKey)>>, instructions |-> <<instruction>>]

NoMessage == [signers |-> <<>>, instructions |-> <<>>]

\* MessageUtil.hash(messageObj), MessageUtil.serialize(messageObj)
MessageUtilHash(m) == Term("MessageUtil.hash", m)
MessageUtilSerialize(m) == Term("MessageUtil.serialize", m)

\* Buffer.from(hash).toString('hex') of an opaque digest
HexText(d) == Term("hex", d)

\* the argument of wallet.signMessage
SignTextOfSerialized(m) == HexText(MessageUtilSerialize(m))
SignText(m) == HexText(MessageUtilHash(m))

\* signMessage: the local key signs only under NETWORK 'regtest' with a
\* private key in the session; every other session goes to the wallet.
SignerPath(w) ==
    IF network = "regtest" /\ w.privateKey # Null THEN "local" ELSE "remote"

\* What the signer is given to sign.  Local: secp256k1.sign over the SHA-256
\* digest of the UTF-8 bytes of the text.  Remote: request('signMessage') with
\* the text as the BIP-322 message of the session's address.
SignRequest(w, text) ==
    IF SignerPath(w) = "local"
    THEN [path |-> "local", text |-> text, key |-> w.privateKey,
          signs |-> Term("SHA-256", Term("TextEncoder.encode", text))]
    ELSE [path |-> "remote", text |-> text, key |-> w.address,
          signs |-> Term("BIP322", text)]

NoRequest == [path |-> "none", text |-> Term("none", Null), key |-> Null,
              signs |-> Term("none", Null)]

\* the text signMessage resolves to for the signature bytes sig
SignatureText(path, sig) ==
    IF path = "local" THEN HexEncode(sig) ELSE Base64Encode(sig)

\* new Uint8Array(Buffer.from(signature, 'base64')).slice(2)
SignatureBytes(text) ==
    LET decoded == Base64Decode(text)
    IN  Slice(decoded, SIG_PREFIX_LEN, Len(decoded))

\* the argument of client.sendTransaction
NoEnvelope == [version |-> -1, signatures |-> <<>>, message |-> NoMessage]

-----------------------------------------------------------------------------
(* The form and the append pipeline: handleNameChange, handleMessageChange, *)
(* the mount-time checks, handleAddToWall with wallet.signMessage.          *)

\* String.prototype.trim: the WhiteSpace and LineTerminator code points
IsWhiteSpace(c) ==
    c \in {9, 10, 11, 12, 13, 32, 160, 5760, 8232, 8233, 8239, 8287, 12288, 65279}
        \cup (8192..8202)

RECURSIVE TrimStart(_)
TrimStart(text) ==
    IF text # <<>> /\ IsWhiteSpace(Head(text)) THEN TrimStart(Tail(text)) ELSE text

RECURSIVE TrimEnd(_)
TrimEnd(text) ==
    IF text # <<>> /\ IsWhiteSpace(text[Len(text)])
    THEN TrimEnd(SubSeq(text, 1, Len(text) - 1))
    ELSE text

Trim(text) == TrimEnd(TrimStart(text))

\* what the user may put in the inputs: nothing, blanks, a text, a text one
\* byte over the limit
FormNames == {<<>>, <<32>>, <<97>>, Repeat(97, NAME_LEN + 1)}
FormMessages == {<<>>, <<104>>, Repeat(97, MESSAGE_LEN + 1)}

ERR_REQUIRED == "Name and message are required, account must be created, and wallet must be connected."
ERR_ADD == "Failed to add to wall"
\* the first sentence of each of the two messages
ERR_PROGRAM == "The Arch Graffiti program has not been deployed to the network yet."
ERR_ACCOUNT == "The wall account has not been created yet."

\* the signature bytes a signer may produce: a framed one and a short one
SignerSignatures == {<<1, 64, 171, 205>>, <<7>>}

\* what readAccountInfo may settle with after a submission
RefetchResponses ==
    {RpcThrew, RpcAccount(AbsentData), RpcAccount(Uint8Array(U32LE(1) \o WholeRecord))}

\* the steps of one invocation, in the order of the code
STEPS_DRAFTED == <<"serialize", "draft", "message", "hash", "sign">>
STEPS_SIGNED == <<"signature", "finalize", "submit">>

\* An invocation of handleAddToWall: where it stands (pc), the name, message
\* and wallet session of the render it closed over, what it built, what the
\* signer was asked and answered, what it passed to sendTransaction, and the
\* steps it took.
RejectedAttempt(n, m, w) ==
    [pc |-> "rejected", failedAt |-> "guard", name |-> n, message |-> m, session |-> w,
     messageObj |-> NoMessage, request |-> NoRequest, signerSig |-> <<>>,
     signature |-> <<>>, envelope |-> NoEnvelope, log |-> <<>>]

\* a throw before signMessage is called: in serializeGraffitiData or in
\* PubkeyUtil.fromHex
FailedDraft(n, m, w) ==
    [pc |-> "failed", failedAt |-> "draft", name |-> n, message |-> m, session |-> w,
     messageObj |-> NoMessage, request |-> NoRequest, signerSig |-> <<>>,
     signature |-> <<>>, envelope |-> NoEnvelope,
     log |-> IF SerializeThrows(n, m) THEN <<>> ELSE <<"serialize">>]

\* lines 237-264 up to the await: the payload, the instruction, the message,
\* its hash, and the call of wallet.signMessage with the hash in hex
SigningAttemptNoAwait(n, m, w) ==
    LET messageObj == DraftMessage(w.publicKey,
                          DraftInstruction(w.publicKey, serializeGraffitiData(n, m)))
    IN  [pc |-> "submitting", failedAt |-> "", name |-> n, message |-> m, session |-> w,
         messageObj |-> messageObj, request |-> SignRequest(w, SignText(messageObj)),
         signerSig |-> <<>>, signature |-> <<>>,
         envelope |-> [version |-> 0, signatures |-> <<<<>>>>, message |-> messageObj],
         log |-> STEPS_DRAFTED \o <<"finalize", "submit">>]
SigningAttempt(n, m, w) ==
    LET data        == serializeGraffitiData(n, m)
        instruction == DraftInstruction(w.publicKey, data)
        messageObj  == DraftMessage(w.publicKey, instruction)
    IN  [pc |-> "signing", failedAt |-> "", name |-> n, message |-> m, session |-> w,
         messageObj |-> messageObj, request |-> SignRequest(w, SignText(messageObj)),
         signerSig |-> <<>>, signature |-> <<>>, envelope |-> NoEnvelope,
         log |-> STEPS_DRAFTED]

\* signMessage throws 'Wallet not connected' before it asks any signer
SignMessageRefuses(w) == ~w.isConnected

\* the catch block: the attempt ends where it failed
FailedAtSubmitsAnyway(att, stage) ==
    IF stage = "sign"
    THEN [att EXCEPT !.pc = "submitting", !.failedAt = stage,
                     !.envelope = [version |-> 0, signatures |-> <<<<>>>>,
                                   message |-> att.messageObj],
                     !.log = att.log \o <<"finalize", "submit">>]
    ELSE [att EXCEPT !.pc = "failed", !.failedAt = stage]
FailedAt(att, stage) == [att EXCEPT !.pc = "failed", !.failedAt = stage]

\* { version: 0, signatures: [signatureBytes], message: messageObj }
EnvelopeOfCurrentForm(att, signatureBytes) ==
    [version |-> 0, signatures |-> <<signatureBytes>>,
     message |-> DraftMessage(att.session.publicKey,
                     DraftInstruction(att.session.publicKey,
                                      serializeGraffitiData(name, message)))]
Envelope(att, signatureBytes) ==
    [version |-> 0, signatures |-> <<signatureBytes>>, message |-> att.messageObj]

\* lines 264-275 once signMessage has resolved with the text of sig
Submitting(att, sig) ==
    LET signature      == SignatureText(att.request.path, sig)
        signatureBytes == SignatureBytes(signature)
    IN  [att EXCEPT !.pc = "submitting", !.signerSig = sig, !.signature = signature,
                    !.envelope = Envelope(att, signatureBytes),
                    !.log = att.log \o STEPS_SIGNED]

AppendInit ==
    /\ name = <<>>
    /\ message = <<>>
    /\ isFormValid = FALSE
    /\ error = Null
    /\ isAccountCreated = FALSE
    /\ wallData = <<>>
    /\ network \in Networks
    /\ storage \in {NoItem, Item(LocalSession), Item(RemoteSession), Item(KeylessSession)}
    /\ wallet = IF storage.present THEN storage.state ELSE NoWallet
    /\ attempts = <<>>
    /\ payload = NoPayload
    /\ lastFetch = RpcNone
    /\ fetchPrior = NoPrior
    /\ probes = {"program", "account"}

HandleNameChangeOffByOne ==
    /\ \E newName \in FormNames :
          IF Len(TextEncode(newName)) <= NAME_LEN + 1
          THEN /\ name' = newName
               /\ isFormValid' = (Trim(newName) # <<>> /\ Trim(message) # <<>>)
          ELSE UNCHANGED <<name, isFormValid>>
    /\ UNCHANGED <<message, error, isAccountCreated, wallData, walletVars, attempts,
                   payload, fetchVars, probes>>
HandleNameChange ==
    /\ \E newName \in FormNames :
          IF Len(TextEncode(newName)) <= NAME_LEN
          THEN /\ name' = newName
               /\ isFormValid' = (Trim(newName) # <<>> /\ Trim(message) # <<>>)
          ELSE UNCHANGED <<name, isFormValid>>
    /\ UNCHANGED <<message, error, isAccountCreated, wallData, walletVars, attempts,
                   payload, fetchVars, probes>>

HandleMessageChange ==
    /\ \E newMessage \in FormMessages :
          IF Len(TextEncode(newMessage)) <= MESSAGE_LEN
          THEN /\ message' = newMessage
               /\ isFormValid' = (Trim(name) # <<>> /\ Trim(newMessage) # <<>>)
          ELSE UNCHANGED <<message, isFormValid>>
    /\ UNCHANGED <<name, error, isAccountCreated, wallData, walletVars, attempts,
                   payload, fetchVars, probes>>

\* checkProgramDeployed, once readAccountInfo has settled
CheckProgramDeployed ==
    /\ "program" \in probes
    /\ probes' = probes \ {"program"}
    /\ \E outcome \in {"found", "none", "throw"} :
          error' = IF outcome = "found" THEN Null
                   ELSE IF outcome = "throw" THEN ERR_PROGRAM ELSE error
    /\ UNCHANGED <<formVars, isAccountCreated, wallData, walletVars, attempts,
                   payload, fetchVars>>

\* checkAccountCreated, once readAccountInfo has settled
CheckAccountCreated ==
    /\ "account" \in probes
    /\ probes' = probes \ {"account"}
    /\ \E outcome \in {"found", "none", "throw"} :
          /\ error' = IF outcome = "found" THEN Null
                      ELSE IF outcome = "throw" THEN ERR_ACCOUNT ELSE error
          /\ isAccountCreated' = IF outcome = "found" THEN TRUE
                                 ELSE IF outcome = "throw" THEN FALSE
                                 ELSE isAccountCreated
    /\ UNCHANGED <<formVars, wallData, walletVars, attempts, payload, fetchVars>>

\* handleAddToWall from the click or the Enter key (both need isFormValid),
\* up to its first await
AddToWallNoAccountCheck(cap) ==
    /\ isFormValid
    /\ Len(attempts) < cap
    /\ IF Trim(message) = <<>> \/ Trim(name) = <<>>
            \/ ~wallet.isConnected
       THEN /\ error' = ERR_REQUIRED
            /\ attempts' = Append(attempts, RejectedAttempt(name, message, wallet))
       ELSE IF SerializeThrows(name, message) \/ PubkeyFromHexThrows(wallet.publicKey)
       THEN /\ error' = ERR_ADD
            /\ attempts' = Append(attempts, FailedDraft(name, message, wallet))
       ELSE IF SignMessageRefuses(wallet)
       THEN /\ error' = ERR_ADD
            /\ attempts' = Append(attempts,
                               FailedAt(SigningAttempt(name, message, wallet), "sign"))
       ELSE /\ attempts' = Append(attempts, SigningAttempt(name, message, wallet))
            /\ UNCHANGED error
    /\ UNCHANGED <<formVars, isAccountCreated, wallData, walletVars, payload,
                   fetchVars, probes>>
AddToWall(cap) ==
    /\ isFormValid
    /\ Len(attempts) < cap
    /\ IF Trim(message) = <<>> \/ Trim(name) = <<>> \/ ~isAccountCreated
            \/ ~wallet.isConnected
       THEN /\ error' = ERR_REQUIRED
            /\ attempts' = Append(attempts, RejectedAttempt(name, message, wallet))
       ELSE IF SerializeThrows(name, message) \/ PubkeyFromHexThrows(wallet.publicKey)
       THEN /\ error' = ERR_ADD
            /\ attempts' = Append(attempts, FailedDraft(name, message, wallet))
       ELSE IF SignMessageRefuses(wallet)
       THEN /\ error' = ERR_ADD
            /\ attempts' = Append(attempts,
                               FailedAt(SigningAttempt(name, message, wallet), "sign"))
       ELSE /\ attempts' = Append(attempts, SigningAttempt(name, message, wallet))
            /\ UNCHANGED error
    /\ UNCHANGED <<formVars, isAccountCreated, wallData, walletVars, payload,
                   fetchVars, probes>>

HandleAddToWall == AddToWall(MaxAttempts)

\* signMessage resolves: the signature is decoded, the envelope assembled and
\* passed to client.sendTransaction
SignerReturns ==
    \E i \in 1..Len(attempts), sig \in SignerSignatures :
        /\ attempts[i].pc = "signing"
        /\ attempts' = [attempts EXCEPT ![i] = Submitting(attempts[i], sig)]
        /\ UNCHANGED <<formVars, error, isAccountCreated, wallData, walletVars,
                       payload, fetchVars, probes>>

\* signMessage rejects: the signer refused, the wallet is missing, or the
\* local signing threw
SignerFails ==
    \E i \in 1..Len(attempts) :
        /\ attempts[i].pc = "signing"
        /\ attempts' = [attempts EXCEPT ![i] = FailedAt(attempts[i], "sign")]
        /\ error' = ERR_ADD
        /\ UNCHANGED <<formVars, isAccountCreated, wallData, walletVars, payload,
                       fetchVars, probes>>

\* sendTransaction resolves: a truthy result starts fetchWallData
SubmitReturnsClears ==
    \E i \in 1..Len(attempts), result \in BOOLEAN :
        /\ attempts[i].pc = "submitting"
        /\ attempts' = [attempts EXCEPT
                           ![i].pc = IF result THEN "refetching" ELSE "done",
                           ![i].log = attempts[i].log \o <<"result">>]
        /\ message' = <<>>
        /\ name' = <<>>
        /\ UNCHANGED <<isFormValid, error, isAccountCreated, wallData, walletVars,
                       payload, fetchVars, probes>>
SubmitReturns ==
    \E i \in 1..Len(attempts), result \in BOOLEAN :
        /\ attempts[i].pc = "submitting"
        /\ attempts' = [attempts EXCEPT
                           ![i].pc = IF result THEN "refetching" ELSE "done",
                           ![i].log = attempts[i].log \o <<"result">>]
        /\ UNCHANGED <<formVars, error, isAccountCreated, wallData, walletVars,
                       payload, fetchVars, probes>>

\* sendTransaction rejects
SubmitFailsRetries ==
    \E i \in 1..Len(attempts) :
        /\ attempts[i].pc = "submitting"
        /\ attempts' = [attempts EXCEPT
                           ![i] = IF Len(attempts[i].log) < 9
                                  THEN [attempts[i] EXCEPT
                                           !.log = attempts[i].log \o <<"submit">>]
                                  ELSE FailedAt(attempts[i], "submit")]
        /\ error' = ERR_ADD
        /\ UNCHANGED <<formVars, isAccountCreated, wallData, walletVars, payload,
                       fetchVars, probes>>
SubmitFails ==
    \E i \in 1..Len(attempts) :
        /\ attempts[i].pc = "submitting"
        /\ attempts' = [attempts EXCEPT ![i] = FailedAt(attempts[i], "submit")]
        /\ error' = ERR_ADD
        /\ UNCHANGED <<formVars, isAccountCreated, wallData, walletVars, payload,
                       fetchVars, probes>>

\* await fetchWallData() settles, then setMessage('') and setName('')
RefetchReturns ==
    \E i \in 1..Len(attempts), resp \in RefetchResponses :
        /\ attempts[i].pc = "refetching"
        /\ FetchWallData(resp)
        /\ message' = <<>>
        /\ name' = <<>>
        /\ attempts' = [attempts EXCEPT ![i].pc = "done",
                                        ![i].log = attempts[i].log \o <<"refetch", "clear">>]
        /\ UNCHANGED <<isFormValid, isAccountCreated, walletVars, payload, probes>>

\* connect, once it has settled.  Under NETWORK 'development' it is
\* connectRegtest; otherwise the mobile redirect returns without a change, a
\* throw (no wallet, a refused request, no ordinals address) clears the state
\* and the stored item, and a success stores the session of the ordinals
\* address.
ConnectKeepsItem ==
    /\ IF network = "development"
       THEN /\ wallet' = LocalSession
            /\ storage' = Item(LocalSession)
       ELSE \E outcome \in {"redirect", "throw", "connected"} :
               IF outcome = "redirect" THEN UNCHANGED <<wallet, storage>>
               ELSE IF outcome = "throw"
               THEN /\ wallet' = NoWallet
                    /\ UNCHANGED storage
               ELSE \E session \in {RemoteSession, KeylessSession} :
                       /\ wallet' = session
                       /\ storage' = Item(session)
    /\ UNCHANGED <<formVars, error, isAccountCreated, wallData, network, attempts,
                   payload, fetchVars, probes>>
Connect ==
    /\ IF network = "development"
       THEN /\ wallet' = LocalSession
            /\ storage' = Item(LocalSession)
       ELSE \E outcome \in {"redirect", "throw", "connected"} :
               IF outcome = "redirect" THEN UNCHANGED <<wallet, storage>>
               ELSE IF outcome = "throw"
               THEN /\ wallet' = NoWallet
                    /\ storage' = NoItem
               ELSE \E session \in {RemoteSession, KeylessSession} :
                       /\ wallet' = session
                       /\ storage' = Item(session)
    /\ UNCHANGED <<formVars, error, isAccountCreated, wallData, network, attempts,
                   payload, fetchVars, probes>>

Disconnect ==
    /\ storage' = NoItem
    /\ wallet' = NoWallet
    /\ UNCHANGED <<formVars, error, isAccountCreated, wallData, network, attempts,
                   payload, fetchVars, probes>>

Next ==
    \/ HandleNameChange
    \/ HandleMessageChange
    \/ CheckProgramDeployed
    \/ CheckAccountCreated
    \/ HandleAddToWall
    \/ SignerReturns
    \/ SignerFails
    \/ SubmitReturns
    \/ SubmitFails
    \/ RefetchReturns

Spec == AppendInit /\ [][Next]_vars

-----------------------------------------------------------------------------
(* The wallet session from an empty store: the page is opened for the first *)
(* time, the user connects and disconnects while the form and the mount     *)
(* checks go on.                                                            *)

WalletInit ==
    /\ AppendInit
    /\ storage = NoItem

WalletNext ==
    \/ Connect
    \/ Disconnect
    \/ HandleNameChange
    \/ HandleMessageChange
    \/ CheckProgramDeployed
    \/ CheckAccountCreated

SpecWallet == WalletInit /\ [][WalletNext]_vars

-----------------------------------------------------------------------------
(* Appends of a user who connects on the page: the wall account has been    *)
(* found, the store starts empty, and the button or the Enter key may be    *)
(* used again while an attempt is under way.                                *)

SessionInit ==
    /\ name = <<>>
    /\ message = <<>>
    /\ isFormValid = FALSE
    /\ error = Null
    /\ isAccountCreated = TRUE
    /\ wallData = <<>>
    /\ network \in Networks
    /\ storage = NoItem
    /\ wallet = NoWallet
    /\ attempts = <<>>
    /\ payload = NoPayload
    /\ lastFetch = RpcNone
    /\ fetchPrior = NoPrior
    /\ probes = {}

\* the click or the Enter key, also while an earlier attempt is awaited
TriggerAddToWall == AddToWall(MaxAttempts + 1)

SessionNext ==
    \/ Connect
    \/ Disconnect
    \/ HandleNameChange
    \/ HandleMessageChange
    \/ TriggerAddToWall
    \/ SignerReturns
    \/ SignerFails
    \/ SubmitReturns
    \/ SubmitFails
    \/ RefetchReturns

SpecSession == SessionInit /\ [][SessionNext]_vars

(* C1 as stated: every name of at most 16 UTF-8 bytes and every message of  *)
(* at most 64, once serialized and read back behind a timestamp, come back  *)
(* exactly.                                                                 *)
ReadBackDone == lastFetch.kind = "account"
Fits(text, n) == Len(TextEncode(text)) <= n

C1_RoundTripEveryText ==
    (ReadBackDone /\ Fits(name, 16) /\ Fits(message, 64))
        => /\ Len(wallData) = 1
           /\ wallData[1].name = name
           /\ wallData[1].message = message

\* a text the zero-padded field can carry: well-formed (no unpaired
\* surrogate), without U+0000, and not starting with the byte order mark
Carriable(text) ==
    /\ \A i \in 1..Len(text) : text[i] # 0 /\ ~(text[i] \in 55296..57343)
    /\ (text = <<>> \/ text[1] # 65279)

(* C1 (amended): the round trip is exact for every name of at most 16 and   *)
(* message of at most 64 UTF-8 bytes that is well-formed, holds no U+0000   *)
(* and does not start with U+FEFF.                                          *)
C1_RoundTrip ==
    (ReadBackDone /\ Fits(name, 16) /\ Fits(message, 64)
        /\ Carriable(name) /\ Carriable(message))
        => /\ Len(wallData) = 1
           /\ wallData[1].name = name
           /\ wallData[1].message = message

\* a name that fills its field to the last byte with a multi-byte character
\* in it, read back with a message
C1_Witness ==
    /\ ReadBackDone
    /\ Carriable(name) /\ Carriable(message)
    /\ Len(TextEncode(name)) = 16 /\ \E i \in 1..Len(name) : name[i] > 127
    /\ message # <<>> /\ Fits(message, 64)
    /\ Len(wallData) = 1 /\ wallData[1].name = name /\ wallData[1].message = message
    /\ wallData[1].timestamp = -1

(* C2: serializeGraffitiData never fails and returns 80 bytes: the first    *)
(* min(16, n) bytes of the name's UTF-8 form, zeros up to 16, then the      *)
(* first min(64, m) bytes of the message's UTF-8 form, zeros up to 80.      *)
C2_PayloadLayout ==
    payload.done =>
        LET nb == TextEncode(name)
            mb == TextEncode(message)
        IN  /\ ~payload.threw
            /\ Len(payload.bytes) = 80
            /\ \A i \in 1..16 :
                  payload.bytes[i] = IF i <= Len(nb) THEN nb[i] ELSE 0
            /\ \A i \in 1..64 :
                  payload.bytes[16 + i] = IF i <= Len(mb) THEN mb[i] ELSE 0

\* an over-long name cut inside a multi-byte character, with an empty message
C2_Witness ==
    /\ payload.done /\ ~payload.threw
    /\ Len(TextEncode(name)) > 16
    /\ payload.bytes[16] > 127
    /\ message = <<>>
    /\ \A i \in 17..80 : payload.bytes[i] = 0


(* C3 as stated: a buffer of at least 4 bytes whose declared count needs    *)
(* more bytes than it has (length < 4 + 88 n) makes the read fail with an   *)
(* error; it yields neither a shorter list nor an entry from a record that  *)
(* is only partly there.                                                    *)
DeclaredCount(data) == LEValue(SubSeq(data.buffer, 1, 4))
TruncatedRead ==
    /\ lastFetch.kind = "account" /\ lastFetch.data.present
    /\ lastFetch.data.length >= 4
    /\ lastFetch.data.length < 4 + (88 * DeclaredCount(lastFetch.data))

C3_TruncatedFails == TruncatedRead => error = ERR_FETCH

(* C4: data that is absent or 0 to 3 bytes long yields an empty ledger and  *)
(* no error, whatever was displayed or reported before.                     *)
ShortRead ==
    /\ lastFetch.kind = "account"
    /\ (~lastFetch.data.present \/ lastFetch.data.length \in 0..3)

C4_ShortIsEmpty == ShortRead => (wallData = <<>> /\ error = Null)

\* a 3-byte buffer arriving over displayed entries and a reported error
C4_Witness ==
    /\ ShortRead /\ lastFetch.data.present /\ lastFetch.data.length = 3
    /\ fetchPrior.hadEntries /\ fetchPrior.hadError
    /\ wallData = <<>> /\ error = Null


-----------------------------------------------------------------------------
(* The append attempts.                                                     *)

HasEnvelope(att) == att.envelope.version = 0
AskedSigner(att) == att.request.path # "none"
Drafted(att) == att.messageObj.instructions # <<>>
FailedEarly(att) == att.failedAt \in {"guard", "draft", "sign"}

(* C5: an attempt that fails before submission (the guard, a missing signer *)
(* key, a signer that refuses or throws) never has an envelope passed to    *)
(* sendTransaction, never takes the finalize or submit step, stays where it *)
(* failed, and the step in which it fails sets the error shown to the user. *)
C5_Aborted ==
    \A i \in 1..Len(attempts) :
        FailedEarly(attempts[i]) =>
            /\ attempts[i].pc \in {"failed", "rejected"}
            /\ ~HasEnvelope(attempts[i])
            /\ \A k \in 1..Len(attempts[i].log) :
                  attempts[i].log[k] \notin {"finalize", "submit", "result"}

C5_Surfaced ==
    \A i \in 1..Len(attempts') :
        LET was == IF i <= Len(attempts) THEN attempts[i].pc ELSE "new"
        IN  /\ (FailedEarly(attempts'[i]) /\ was \notin {"failed", "rejected"})
                  => error' = IF attempts'[i].failedAt = "guard"
                              THEN ERR_REQUIRED ELSE ERR_ADD
            /\ was \in {"failed", "rejected"} => attempts'[i] = attempts[i]

C5_FailureAborts == [](C5_Aborted) /\ [][C5_Surfaced]_vars

\* a signer that was asked and refused
C5_Witness ==
    \E i \in 1..Len(attempts) :
        /\ attempts[i].failedAt = "sign"
        /\ attempts[i].pc = "failed"
        /\ AskedSigner(attempts[i])
        /\ error = ERR_ADD

(* C6: the steps of an attempt are taken in the order serialize, draft,     *)
(* message, hash, sign, signature, finalize, submit: the signer is asked    *)
(* only with the hash of a message already built, and an envelope exists    *)
(* only once the signer has returned a signature.                           *)
STEP_ORDER ==
    <<"serialize", "draft", "message", "hash", "sign", "signature", "finalize",
      "submit", "result", "refetch", "clear">>

C6_StepsInOrder ==
    \A i \in 1..Len(attempts) :
        LET att == attempts[i]
        IN  /\ Len(att.log) <= Len(STEP_ORDER)
            /\ att.log = SubSeq(STEP_ORDER, 1, Len(att.log))
            /\ AskedSigner(att) => (Drafted(att) /\ Len(att.log) >= 5)
            /\ HasEnvelope(att) => (att.signature # <<>> /\ Len(att.log) >= 8)
            /\ (Len(att.log) >= 7) => att.signature # <<>>

\* an attempt that went through all four steps and was submitted
C6_Witness ==
    \E i \in 1..Len(attempts) :
        /\ attempts[i].pc = "submitting"
        /\ attempts[i].log = SubSeq(STEP_ORDER, 1, 8)
        /\ HasEnvelope(attempts[i])

(* C7 as stated: what the signer signs is exactly the canonical hash of the *)
(* message placed in the envelope, on the local and on the remote path.     *)
C7_SignsExactlyHash ==
    \A i \in 1..Len(attempts) :
        AskedSigner(attempts[i]) =>
            attempts[i].request.signs = [alg |-> "MessageUtil.hash",
                                         of |-> attempts[i].messageObj]

(* C7 (amended): the signer is handed the lowercase hex text of the         *)
(* canonical hash of the message placed in the envelope; the local key      *)
(* signs the SHA-256 digest of that text's UTF-8 bytes, the remote wallet   *)
(* is asked to sign that text as a BIP-322 message.                         *)
C7_SignsHexTextOfHash ==
    \A i \in 1..Len(attempts) :
        LET att == attempts[i]
            hex == [alg |-> "hex",
                    of |-> [alg |-> "MessageUtil.hash", of |-> att.messageObj]]
        IN  AskedSigner(att) =>
              /\ att.request.text = hex
              /\ HasEnvelope(att) => att.envelope.message = att.messageObj
              /\ att.request.path = "local" =>
                    att.request.signs =
                        [alg |-> "SHA-256",
                         of |-> [alg |-> "TextEncoder.encode", of |-> hex]]
              /\ att.request.path = "remote" =>
                    att.request.signs = [alg |-> "BIP322", of |-> hex]

\* the local key was asked and its signature submitted
C7_Witness ==
    \E i \in 1..Len(attempts) :
        /\ HasEnvelope(attempts[i])
        /\ attempts[i].request.path = "local"
        /\ attempts[i].request.signs.alg = "SHA-256"

(* C8: every envelope passed to sendTransaction has version 0, exactly one  *)
(* signature, and as message the message object built from the name and     *)
(* message the attempt started with, the one whose hash went to the signer. *)
C8_Envelope ==
    \A i \in 1..Len(attempts) :
        LET att == attempts[i]
        IN  HasEnvelope(att) =>
              /\ att.envelope.version = 0
              /\ Len(att.envelope.signatures) = 1
              /\ att.envelope.message = att.messageObj
              /\ att.request.text.of.of = att.envelope.message
              /\ att.envelope.message.instructions[1].data
                    = serializeGraffitiData(att.name, att.message)

\* an envelope submitted after the form was edited during signing
C8_Witness ==
    \E i \in 1..Len(attempts) :
        /\ HasEnvelope(attempts[i])
        /\ attempts[i].pc = "submitting"
        /\ message # attempts[i].message
        /\ name # attempts[i].name

(* C9 as stated: the envelope's signature is the signer's signature bytes   *)
(* without their first 2 bytes: for L >= 2 bytes, bytes 2..L-1 in order.    *)
C9_StripsTwoBytes ==
    \A i \in 1..Len(attempts) :
        LET att == attempts[i]
        IN  (HasEnvelope(att) /\ Len(att.signerSig) >= 2) =>
                att.envelope.signatures[1]
                    = SubSeq(att.signerSig, 3, Len(att.signerSig))

(* C10: a drafted instruction targets the configured program, lists the     *)
(* signer's key (signer, not writable) then the wall account (not signer,   *)
(* writable), carries the 80-byte payload of the attempt's name and         *)
(* message; the message names that signer key alone and holds that one      *)
(* instruction.                                                             *)
C10_DraftShape ==
    \A i \in 1..Len(attempts) :
        LET att    == attempts[i]
            signer == [alg |-> "PubkeyUtil.fromHex", of |-> att.session.publicKey]
        IN  Drafted(att) =>
              /\ Len(att.messageObj.instructions) = 1
              /\ att.messageObj.signers = <<signer>>
              /\ LET ins == att.messageObj.instructions[1]
                 IN  /\ ins.program_id
                          = [alg |-> "PubkeyUtil.fromHex", of |-> PROGRAM_PUBKEY]
                     /\ Len(ins.accounts) = 2
                     /\ ins.accounts[1] = [pubkey |-> signer, is_signer |-> TRUE,
                                           is_writable |-> FALSE]
                     /\ ins.accounts[2]
                          = [pubkey |-> [alg |-> "PubkeyUtil.fromHex",
                                         of |-> WALL_ACCOUNT_PUBKEY],
                             is_signer |-> FALSE, is_writable |-> TRUE]
                     /\ Len(ins.data) = 80
                     /\ ins.data = serializeGraffitiData(att.name, att.message)

\* a drafted message of a remote session with a one-letter name and message
C10_Witness ==
    \E i \in 1..Len(attempts) :
        /\ Drafted(attempts[i])
        /\ attempts[i].session.publicKey = "pk_ordinals"
        /\ attempts[i].name = <<97>> /\ attempts[i].message = <<104>>
        /\ attempts[i].messageObj.instructions[1].data[1] = 97
        /\ attempts[i].messageObj.instructions[1].data[17] = 104


-----------------------------------------------------------------------------
(* The read path, continued.                                                *)

\* the last fetch returned data of at least 4 bytes and its decode went
\* through: Decoded is what the loop pushed, in buffer order
DecodedRead ==
    /\ lastFetch.kind = "account"
    /\ ~IsShortData(lastFetch.data)
    /\ ~DecodeMessages(lastFetch.data).threw
Decoded == DecodeMessages(lastFetch.data).messages

(* C11: the displayed list is a permutation of the decoded entries, in      *)
(* descending order of timestamp, and entries of equal timestamp stay in    *)
(* their buffer order.                                                      *)
C11_StableRecencySort ==
    DecodedRead =>
        /\ Len(wallData) = Len(Decoded)
        /\ \E p \in Permutations(1..Len(Decoded)) :
              /\ \A i \in 1..Len(wallData) : wallData[i] = Decoded[p[i]]
              /\ \A i, j \in 1..Len(wallData) :
                    i < j => \/ wallData[i].timestamp > wallData[j].timestamp
                             \/ /\ wallData[i].timestamp = wallData[j].timestamp
                                /\ p[i] < p[j]

\* 100, then two different entries of 300: displayed as the two of 300 in
\* buffer order, then 100
C11_Witness ==
    /\ DecodedRead
    /\ Len(Decoded) = 3
    /\ Decoded[1].timestamp = 100
    /\ Decoded[2].timestamp = 300 /\ Decoded[3].timestamp = 300
    /\ Decoded[2].name # Decoded[3].name
    /\ wallData = <<Decoded[2], Decoded[3], Decoded[1]>>


(* C12 as stated: when the decode of a fetched buffer fails, the displayed  *)
(* list is empty and the error is set.                                      *)
DecodeFailed ==
    /\ lastFetch.kind = "account"
    /\ ~IsShortData(lastFetch.data)
    /\ DecodeMessages(lastFetch.data).threw

C12_DecodeFailureEmpties == DecodeFailed => (wallData = <<>> /\ error # Null)

\* the bytes of the two text fields of the record read back, without zeros
NameFieldBytes == FilterNonZero(SubSeq(payload.bytes, 1, 16))
MessageFieldBytes == FilterNonZero(SubSeq(payload.bytes, 17, 80))

\* bytes that are the UTF-8 form of some text, behind a byte order mark or
\* not
ValidUtf8(bytes) ==
    LET text == TextDecode(bytes)
    IN  \/ bytes = TextEncode(text)
        \/ bytes = <<239, 187, 191>> \o TextEncode(text)

(* C13 as stated: a record whose name or message bytes, zeros removed, are  *)
(* not valid UTF-8 makes the read fail and yields no entry.                 *)
C13_InvalidTextFails ==
    (ReadBackDone /\ (~ValidUtf8(NameFieldBytes) \/ ~ValidUtf8(MessageFieldBytes)))
        => (error # Null /\ wallData = <<>>)

(* C13 (amended): every zero byte of the two fields, embedded or trailing,  *)
(* is removed before decoding, and the decode never fails on the text:      *)
(* valid bytes come back as their text (without a leading byte order        *)
(* mark), and bytes that are not valid UTF-8 yield an entry in which        *)
(* U+FFFD stands for each malformed sequence.                               *)
C13_LenientText ==
    ReadBackDone =>
        /\ error = Null
        /\ Len(wallData) = 1
        /\ \A i \in 1..Len(wallData[1].name) : wallData[1].name[i] # 0
        /\ \A i \in 1..Len(wallData[1].message) : wallData[1].message[i] # 0
        /\ IF ValidUtf8(NameFieldBytes)
           THEN \/ TextEncode(wallData[1].name) = NameFieldBytes
                \/ <<239, 187, 191>> \o TextEncode(wallData[1].name) = NameFieldBytes
           ELSE \E i \in 1..Len(wallData[1].name) : wallData[1].name[i] = 65533
        /\ IF ValidUtf8(MessageFieldBytes)
           THEN \/ TextEncode(wallData[1].message) = MessageFieldBytes
                \/ <<239, 187, 191>> \o TextEncode(wallData[1].message)
                      = MessageFieldBytes
           ELSE \E i \in 1..Len(wallData[1].message) : wallData[1].message[i] = 65533

\* a name field with a zero byte inside it and a character cut at byte 16:
\* the entry shows the letters and U+FFFD
C13_Witness ==
    /\ ReadBackDone
    /\ \E i \in 1..15 : payload.bytes[i] = 0 /\ payload.bytes[i + 1] # 0
    /\ ~ValidUtf8(NameFieldBytes)
    /\ Len(wallData) = 1
    /\ wallData[1].name # <<>>
    /\ wallData[1].name[Len(wallData[1].name)] = 65533
    /\ error = Null

(* C14 as stated: the count and every record are read from the supplied     *)
(* account data itself, also when the data is a window at a non-zero        *)
(* offset of a larger buffer: data that holds exactly the records it        *)
(* declares is displayed as the records of its own bytes.                   *)
OwnBytes == Uint8Array(ViewBytes(lastFetch.data))
WholeWindow ==
    /\ lastFetch.kind = "account"
    /\ ~IsShortData(lastFetch.data)
    /\ lastFetch.data.length = 4 + (88 * DeclaredCount(OwnBytes))

C14_ReadsOwnWindow ==
    WholeWindow => wallData = SortMessages(DecodeMessages(OwnBytes).messages)

(* C15: after a fetch that returned account data and did not fail, the      *)
(* displayed entries are the entries decoded from that data and no others:  *)
(* none for absent or short data, otherwise each decoded entry exactly      *)
(* once, whatever was displayed before.                                     *)
C15_RebuiltFromFetch ==
    /\ ShortRead => wallData = <<>>
    /\ DecodedRead =>
          /\ Len(wallData) = Len(Decoded)
          /\ \E p \in Permutations(1..Len(Decoded)) :
                \A i \in 1..Len(wallData) : wallData[i] = Decoded[p[i]]

\* one entry of timestamp 200 displayed by a fetch that found entries on
\* display
C15_Witness ==
    /\ DecodedRead
    /\ fetchPrior.hadEntries
    /\ Len(Decoded) = 1
    /\ wallData = <<Decoded[1]>>
    /\ wallData[1].timestamp = 200


-----------------------------------------------------------------------------
(* The append attempts, continued.                                          *)

StepCount(att, step) == Cardinality({k \in 1..Len(att.log) : att.log[k] = step})
Ended(att) == att.pc \in {"failed", "rejected", "done"}

(* C16: nothing retries: an attempt asks the signer at most once and calls  *)
(* sendTransaction at most once, an attempt that has failed or ended takes  *)
(* no further step, and a signing request is only ever made in the step of  *)
(* a user trigger, which starts a new attempt.                              *)
C16_OnceEach ==
    \A i \in 1..Len(attempts) :
        /\ StepCount(attempts[i], "sign") <= 1
        /\ StepCount(attempts[i], "submit") <= 1

C16_NoFurtherStep ==
    /\ Len(attempts') >= Len(attempts)
    /\ \A i \in 1..Len(attempts) :
          /\ Ended(attempts[i]) => attempts'[i] = attempts[i]
          /\ StepCount(attempts'[i], "sign") = StepCount(attempts[i], "sign")
          /\ StepCount(attempts'[i], "submit") > StepCount(attempts[i], "submit")
                => attempts[i].pc = "signing"

C16_NoRetry == [](C16_OnceEach) /\ [][C16_NoFurtherStep]_vars

\* a submission that was rejected, after one signing request and one call
C16_Witness ==
    \E i \in 1..Len(attempts) :
        /\ attempts[i].failedAt = "submit"
        /\ attempts[i].pc = "failed"
        /\ StepCount(attempts[i], "sign") = 1
        /\ StepCount(attempts[i], "submit") = 1


-----------------------------------------------------------------------------
(* The wallet session.                                                      *)

AllNull(w) ==
    /\ w.publicKey = Null
    /\ w.privateKey = Null
    /\ w.address = Null
    /\ w.walletType = Null

(* C17: from an empty store, after any connects and disconnects, the        *)
(* session is disconnected exactly when its four fields are null, the       *)
(* stored item exists exactly when it is connected, and a step that takes   *)
(* a connected session to a disconnected one (a failed connect, a           *)
(* disconnect) leaves the null session and no stored item.                  *)
C17_SessionShape ==
    /\ (~wallet.isConnected) <=> AllNull(wallet)
    /\ storage.present <=> wallet.isConnected

C17_ClearedWhole ==
    (~wallet'.isConnected) => (wallet' = NoWallet /\ storage' = NoItem)

C17_WalletInvariant == [](C17_SessionShape) /\ [][C17_ClearedWhole]_vars

\* connected through an ordinals address that came without a public key
C17_Witness ==
    /\ wallet.isConnected
    /\ wallet.publicKey = Null /\ wallet.privateKey = Null
    /\ wallet.address # Null
    /\ storage = Item(wallet)

(* C18 as stated: on every network a session of the local-key connect path  *)
(* (privateKey set, address null) is signed with the local key, and the     *)
(* remote wallet is only asked for a session that has an address.           *)
C18_SignerMatchesSession ==
    \A i \in 1..Len(attempts) :
        LET att == attempts[i]
        IN  AskedSigner(att) =>
              /\ (att.session.privateKey # Null /\ att.session.address = Null)
                    => att.request.path = "local"
              /\ att.request.path = "remote" => att.session.address # Null

(* C19 as stated: attempts do not overlap: at most one attempt is awaiting  *)
(* the signer or the submission, and no name and message pair is passed to  *)
(* sendTransaction by two attempts.                                         *)
Awaiting(att) == att.pc \in {"signing", "submitting"}

C19_NoOverlap ==
    \A i, j \in 1..Len(attempts) :
        i # j =>
            /\ ~(Awaiting(attempts[i]) /\ Awaiting(attempts[j]))
            /\ (HasEnvelope(attempts[i]) /\ HasEnvelope(attempts[j]))
                  => <<attempts[i].name, attempts[i].message>>
                        # <<attempts[j].name, attempts[j].message>>

(* C20 as stated: isFormValid is true exactly when the name and the message *)
(* are both non-blank after trimming, in every reachable state.             *)
C20_FormValidIff ==
    isFormValid <=> (Trim(name) # <<>> /\ Trim(message) # <<>>)


-----------------------------------------------------------------------------
(* The guard and the frame of an append, the limits of the form.            *)

\* the conditions of the guard in the state in which the append is triggered
GuardPasses ==
    /\ wallet.isConnected
    /\ isAccountCreated
    /\ Trim(name) # <<>>
    /\ Trim(message) # <<>>

(* C21: a trigger starts a signing request only in a state in which the     *)
(* wallet is connected, the wall account is known to exist and the name and *)
(* message are non-blank; otherwise the attempt ends at once with the       *)
(* error set and no serialize, sign or submit step, and stays so.           *)
C21_Triggered ==
    Len(attempts') = Len(attempts) + 1 =>
        LET att == attempts'[Len(attempts')]
        IN  /\ ~GuardPasses =>
                  /\ att.pc = "rejected"
                  /\ error' = ERR_REQUIRED
                  /\ att.log = <<>>
                  /\ ~AskedSigner(att) /\ ~HasEnvelope(att) /\ ~Drafted(att)
            /\ (AskedSigner(att) \/ Drafted(att)) => GuardPasses

C21_OnlyGuarded ==
    \A i \in 1..Len(attempts) :
        LET att == attempts[i]
        IN  /\ HasEnvelope(att) => AskedSigner(att)
            /\ AskedSigner(att) =>
                  /\ att.session.isConnected
                  /\ Trim(att.name) # <<>> /\ Trim(att.message) # <<>>
                  /\ att.pc # "rejected"
            /\ att.pc = "rejected" =>
                  (att.log = <<>> /\ ~AskedSigner(att) /\ ~HasEnvelope(att))

C21_GuardedAppend == [](C21_OnlyGuarded) /\ [][C21_Triggered]_vars

\* a connected user with a valid form, turned away because the wall account
\* is not known to exist
C21_Witness ==
    \E i \in 1..Len(attempts) :
        /\ attempts[i].pc = "rejected"
        /\ attempts[i].session.isConnected
        /\ Trim(attempts[i].name) # <<>> /\ Trim(attempts[i].message) # <<>>
        /\ ~isAccountCreated
        /\ error = ERR_REQUIRED

(* C22: a step of an attempt changes the name, the message or the displayed *)
(* list only when it is the end of the fetch that follows a truthy result   *)
(* of sendTransaction, and that step clears the name and the message: a     *)
(* signer error, a submission error and a falsy result leave all three as   *)
(* they were.                                                               *)
C22_Frame ==
    /\ Len(attempts') > Len(attempts) => UNCHANGED <<name, message, wallData>>
    /\ \A i \in 1..Len(attempts) :
          LET refetched == /\ attempts[i].pc = "refetching"
                           /\ attempts'[i].pc = "done"
          IN  /\ (attempts'[i].pc # attempts[i].pc /\ ~refetched)
                    => UNCHANGED <<name, message, wallData>>
              /\ refetched =>
                    /\ name' = <<>> /\ message' = <<>>
                    /\ StepCount(attempts[i], "result") = 1

C22_FailureKeepsForm == [][C22_Frame]_vars

\* an attempt that ended on a falsy result, with the name and message it
\* started with still in the form
C22_Witness ==
    \E i \in 1..Len(attempts) :
        /\ attempts[i].pc = "done"
        /\ attempts[i].log[Len(attempts[i].log)] = "result"
        /\ name = attempts[i].name /\ message = attempts[i].message
        /\ name # <<>> /\ message # <<>>

(* C23: the stored name is at most 16 and the stored message at most 64     *)
(* UTF-8 bytes in every state, and so are the name and message of every     *)
(* attempt: the payload an attempt drafts holds their whole UTF-8 forms,    *)
(* nothing cut.                                                             *)
C23_WithinLimits ==
    /\ Len(TextEncode(name)) <= 16
    /\ Len(TextEncode(message)) <= 64
    /\ \A i \in 1..Len(attempts) :
          LET att == attempts[i]
              nb  == TextEncode(att.name)
              mb  == TextEncode(att.message)
          IN  /\ Len(nb) <= 16 /\ Len(mb) <= 64
              /\ Drafted(att) =>
                    LET data == att.messageObj.instructions[1].data
                    IN  /\ SubSeq(data, 1, Len(nb)) = nb
                        /\ SubSeq(data, 17, 16 + Len(mb)) = mb

\* an envelope submitted for a name and message within the limits
C23_Witness ==
    \E i \in 1..Len(attempts) :
        /\ HasEnvelope(attempts[i])
        /\ attempts[i].name = <<97>> /\ attempts[i].message = <<104>>
        /\ attempts[i].envelope.message.instructions[1].data[2] = 0
        /\ Len(TextEncode(name)) <= 16 /\ Len(TextEncode(message)) <= 64

=============================================================================
